---- MODULE Spec2Model ----
(***************************************************************************)
(* Result<R, E>: a value holding either a return value or an error, with   *)
(* its combinators (map_res, map_err, and_then, or_else), its exits        *)
(* (unwrap, expect), the TRY macro, and the Fibonacci functions of the     *)
(* unit tests that use them.                                               *)
(*                                                                         *)
(* A Result is the record [internal_ |-> [index, storage]]: the            *)
(* boost::variant<return_type, error_type> member, whose which() is the    *)
(* index of the alternative it stores.  A call that may throw is modelled  *)
(* by the outcome it produces: [kind |-> "return" or "throw", val, calls], *)
(* where calls lists the invocations <<f, argument>> of the caller-given   *)
(* function made during the call.                                          *)
(***************************************************************************)
EXTENDS Integers, Sequences, FiniteSets

(* ------------------------------- bounds -------------------------------- *)

\* payload values range over -NegVals .. MaxVal
NegVals == 1
MaxVal == 2
\* stages of a method chain whose operations are chosen freely
MaxFree == 2
\* stages of a method chain in all (the later ones repeat the last stage)
MaxStages == 6
\* largest argument handed to the Fibonacci functions
MaxFib == 10

Values == (0 - NegVals)..MaxVal
FibInputs == (0 - NegVals)..MaxFib

\* error payloads (values of error_type E)
Errors == {"exception", "division by zero"}
\* errors handed to expect (values of EE)
OtherErrors == {"logical error", "silly me!"}

\* instantiations of the template parameter RR
Types == {"int", "char"}

(* --------------------------- outcomes of calls ------------------------- *)

Return(x) == [kind |-> "return", val |-> x, calls |-> <<>>]
Throw(x) == [kind |-> "throw", val |-> x, calls |-> <<>>]

\* conversion of an int to the type T (char: 8 bits, signed)
Cast(T, x) == IF T = "char" THEN ((x + 128) % 256) - 128 ELSE x

(* ------------------------------ Result --------------------------------- *)

\* explicit Result(return_type&&)
ResultOfReturn(ret) == [internal_ |-> [index |-> 0, storage |-> ret]]
\* explicit Result(error_type&&)
ResultOfError(err) == [internal_ |-> [index |-> 1, storage |-> err]]

Ok(ret) == ResultOfReturn(ret)
Err(err) == ResultOfError(err)

\* boost::variant::which()
which(v) == v.index
\* boost::variant::empty(): a boost::variant is never empty
empty(v) == FALSE
\* boost::get<T>(variant const&), T the alternative number idx
boost_get(v, idx) ==
  IF which(v) = idx THEN Return(v.storage) ELSE Throw("boost::bad_get")

\* is_error testing the index of the return value
is_error_index0(r) == which(r.internal_) = 0

is_ok(r) == which(r.internal_) = 0
is_error(r) == which(r.internal_) = 1

expect_valid_state(r) ==
  IF empty(r.internal_)
    THEN Throw("this object is not in a valid state")
    ELSE Return("void")

\* expect_return without its check
expect_return_unchecked(r) == Return("void")

expect_return(r) ==
  IF is_error(r)
    THEN Throw("attempt to read the return of an error")
    ELSE Return("void")

expect_error(r) ==
  IF is_ok(r)
    THEN Throw("attempt to read the error of a valid result")
    ELSE Return("void")

get_return(r) ==
  LET a == expect_valid_state(r)
      b == expect_return(r)
  IN  IF a.kind = "throw" THEN a
      ELSE IF b.kind = "throw" THEN b
      ELSE boost_get(r.internal_, 0)

get_error(r) ==
  LET a == expect_valid_state(r)
      b == expect_error(r)
  IN  IF a.kind = "throw" THEN a
      ELSE IF b.kind = "throw" THEN b
      ELSE boost_get(r.internal_, 1)

\* unwrap reading the return value whatever is stored
unwrap_no_throw(r) == get_return(r)

unwrap(r) ==
  IF is_error(r)
    THEN LET e == get_error(r) IN IF e.kind = "throw" THEN e ELSE Throw(e.val)
    ELSE get_return(r)

\* expect throwing the stored error instead of the given one
expect_stored(r, err) ==
  IF is_error(r)
    THEN LET e == get_error(r) IN IF e.kind = "throw" THEN e ELSE Throw(e.val)
    ELSE get_return(r)

expect(r, err) ==
  LET a == expect_valid_state(r)
  IN  IF a.kind = "throw" THEN a
      ELSE IF is_error(r) THEN Throw(err)
      ELSE get_return(r)

(* ------------------- the instance a method was called on --------------- *)

\* get_return leaving the variant holding a default-constructed error
after_get_return_reset(r) == IF is_error(r) THEN r ELSE Err("exception")

\* *this after get_return(): a const member, which copies the stored value
\* out of internal_ and assigns nothing
after_get_return(r) == r

\* *this after get_error(): a const member too
after_get_error(r) == r

\* *this after the method op: the methods touch internal_ only through
\* is_ok, is_error and the getter of the branch they take
this_after(op, r) ==
  CASE op \in {"map_res", "and_then", "unwrap"} ->
         IF is_error(r) THEN after_get_error(r) ELSE after_get_return(r)
    [] op = "map_err" ->
         IF is_ok(r) THEN after_get_return(r) ELSE after_get_error(r)
    [] op = "or_else" -> after_get_return(r)
    [] op = "expect" -> IF is_error(r) THEN r ELSE after_get_return(r)

(* ------------------------------- TRY ----------------------------------- *)

\* TRY without the early return
TRY_no_return(res) == unwrap(res)

\* The macro TRY(expr), res being the value of expr.  kind "leave": the
\* enclosing function returns val; kind "return": the macro has the value
\* val; kind "throw": unwrap threw val.
TRY(res) ==
  IF is_error(res)
    THEN [kind |-> "leave", val |-> res, calls |-> <<>>]
    ELSE unwrap(res)

(* ----------------------- functions of the unit tests ------------------- *)

RECURSIVE get_fib_recursive(_)
get_fib_recursive(n) ==
  IF n < 0 THEN Return(Err("exception"))
  ELSE IF n = 0 THEN Return(Ok(1))
  ELSE IF n = 1 THEN Return(Ok(1))
  ELSE LET c1 == get_fib_recursive(n - 1)
           n_1 == TRY(c1.val)
           c2 == get_fib_recursive(n - 2)
           n_2 == TRY(c2.val)
       IN  IF c1.kind = "throw" THEN c1
           ELSE IF n_1.kind = "leave" THEN Return(n_1.val)
           ELSE IF n_1.kind = "throw" THEN n_1
           ELSE IF c2.kind = "throw" THEN c2
           ELSE IF n_2.kind = "leave" THEN Return(n_2.val)
           ELSE IF n_2.kind = "throw" THEN n_2
           ELSE Return(Ok(n_1.val + n_2.val))

\* the for loop running once more (i >= 0)
RECURSIVE fib_loop_once_more(_, _, _)
fib_loop_once_more(i, n_1, n_2) ==
  IF i >= 0 THEN fib_loop_once_more(i - 1, n_1 + n_2, n_1) ELSE n_1

\* the for loop of get_fib_iterative: the value of n_1 when it ends
RECURSIVE fib_loop(_, _, _)
fib_loop(i, n_1, n_2) ==
  IF i > 0 THEN fib_loop(i - 1, n_1 + n_2, n_1) ELSE n_1

get_fib_iterative(n) ==
  IF n < 0 THEN Return(Err("exception"))
  ELSE Return(Ok(fib_loop(n, 1, 0)))

by_two(i) == i * 2
by_two_(i) == Return(Ok(i * 2))
\* [](int&& i) { return static_cast<char>(i); }
to_char(i) == Cast("char", i)
\* [](auto i) { return i + 1; }
plus_one(i) == i + 1
\* [](std::exception&&) { return error{}; }
to_error(e) == "error"

\* functions R -> RR given to map_res
MapFns == {"by_two", "to_char", "plus_one"}
\* functions E -> EE given to map_err
ErrFns == {"to_error"}
\* functions R -> Result<RR, E> given to and_then and or_else
ResFns == {"by_two_", "get_fib_iterative", "get_fib_recursive"}

\* the call f(x)
Apply(f, x) ==
  CASE f = "by_two" -> by_two(x)
    [] f = "to_char" -> to_char(x)
    [] f = "plus_one" -> plus_one(x)
    [] f = "to_error" -> to_error(x)
    [] f = "by_two_" -> by_two_(x)
    [] f = "get_fib_iterative" -> get_fib_iterative(x)
    [] f = "get_fib_recursive" -> get_fib_recursive(x)

(* ----------------------------- combinators ----------------------------- *)

\* map_res rewrapping the return value without calling f
map_res_no_call(r, RR, f) ==
  IF is_error(r)
    THEN LET e == get_error(r)
         IN  IF e.kind = "throw" THEN e ELSE Return(Err(e.val))
    ELSE LET v == get_return(r)
         IN  IF v.kind = "throw" THEN v ELSE Return(Ok(Cast(RR, v.val)))

map_res(r, RR, f) ==
  IF is_error(r)
    THEN LET e == get_error(r)
         IN  IF e.kind = "throw" THEN e ELSE Return(Err(e.val))
    ELSE LET v == get_return(r)
         IN  IF v.kind = "throw" THEN v
             ELSE [kind |-> "return",
                   val |-> Ok(Cast(RR, Apply(f, v.val))),
                   calls |-> << <<f, v.val>> >>]

\* map_err rewrapping the error without calling f
map_err_no_call(r, f) ==
  IF is_ok(r)
    THEN LET v == get_return(r)
         IN  IF v.kind = "throw" THEN v ELSE Return(Ok(v.val))
    ELSE LET e == get_error(r)
         IN  IF e.kind = "throw" THEN e ELSE Return(Err(e.val))

map_err(r, f) ==
  IF is_ok(r)
    THEN LET v == get_return(r)
         IN  IF v.kind = "throw" THEN v ELSE Return(Ok(v.val))
    ELSE LET e == get_error(r)
         IN  IF e.kind = "throw" THEN e
             ELSE [kind |-> "return",
                   val |-> Err(Apply(f, e.val)),
                   calls |-> << <<f, e.val>> >>]

\* and_then returning a default-constructed error instead of the stored one
and_then_new_error(r, f) ==
  IF is_error(r)
    THEN Return(Err("exception"))
    ELSE LET v == get_return(r)
         IN  IF v.kind = "throw" THEN v
             ELSE [Apply(f, v.val) EXCEPT !.calls = << <<f, v.val>> >>]

\* f returns a Result<RR, error_type>, which is returned as it is
and_then(r, f) ==
  IF is_error(r)
    THEN LET e == get_error(r)
         IN  IF e.kind = "throw" THEN e ELSE Return(Err(e.val))
    ELSE LET v == get_return(r)
         IN  IF v.kind = "throw" THEN v
             ELSE [Apply(f, v.val) EXCEPT !.calls = << <<f, v.val>> >>]

\* or_else rewrapping a default-constructed value instead of the stored one
or_else_default_value(r, RR, f) ==
  IF is_ok(r)
    THEN Return(Ok(Cast(RR, 0)))
    ELSE LET v == get_return(r)
         IN  IF v.kind = "throw" THEN v
             ELSE [Apply(f, v.val) EXCEPT !.calls = << <<f, v.val>> >>]

or_else(r, RR, f) ==
  IF is_ok(r)
    THEN LET v == get_return(r)
         IN  IF v.kind = "throw" THEN v ELSE Return(Ok(Cast(RR, v.val)))
    ELSE LET v == get_return(r)
         IN  IF v.kind = "throw" THEN v
             ELSE [Apply(f, v.val) EXCEPT !.calls = << <<f, v.val>> >>]

(* ------------------------------- state --------------------------------- *)

VARIABLES
  pc,      \* "idle", "chain" (a method chain is being evaluated), "done",
           \* "again" (a Result has had a second method called on it),
           \* "step2", "step3" (in the function of two TRY steps), "returned"
  res,     \* the Result the next method of the chain is called on
  origin,  \* the Result the chain started from
  src,     \* <<name, argument>> of the call that made origin
  self,    \* the Result the last method was called on, as the call left it
  again,   \* a second method called on that same Result: [op, pre, post]
  trace,   \* the methods called so far: [op, pre, post], post the outcome
  out,     \* what the whole chain expression did: returned or threw val
  steps,   \* the Results of the fallible steps that have run, in order
  locals,  \* n_1 and n_2 of the function of two TRY steps
  fret     \* the outcome of the function of two TRY steps

vars ==
  <<pc, res, origin, src, self, again, trace, out, steps, locals, fret>>

NoResult == [none |-> TRUE]
NoOutcome == [kind |-> "none"]
NoLocals == [n_1 |-> 0, n_2 |-> 0]

chainVars == <<res, origin, src, self, again, trace, out>>
tryVars == <<steps, locals, fret>>

Init ==
  /\ pc = "idle"
  /\ res = NoResult
  /\ origin = NoResult
  /\ src = <<"none">>
  /\ self = NoResult
  /\ again = NoOutcome
  /\ trace = <<>>
  /\ out = NoOutcome
  /\ steps = <<>>
  /\ locals = NoLocals
  /\ fret = NoOutcome

(* ------------------------ starting a method chain ---------------------- *)

Start(name, arg, r) ==
  /\ pc = "idle"
  /\ pc' = "chain"
  /\ res' = r
  /\ origin' = r
  /\ src' = <<name, arg>>
  /\ UNCHANGED <<self, again, trace, out>>
  /\ UNCHANGED tryVars

\* Result<int>::Ok(v)
MakeOk(v) == Start("Ok", v, Ok(v))
\* Result<int>::Err(e)
MakeErr(e) == Start("Err", e, Err(e))
\* get_fib_recursive(n) or get_fib_iterative(n)
CallFib(f, n) ==
  /\ pc = "idle"
  /\ Apply(f, n).kind = "return"
  /\ Start(f, n, Apply(f, n).val)

(* ------------------------- the methods of a chain ---------------------- *)

SameStage(a, b) == a.op = b.op /\ a.f = b.f /\ a.rr = b.rr

\* a chain is any MaxFree stages, and then repeats its last stage
MayChain(o) ==
  /\ pc = "chain"
  /\ IF Len(trace) < MaxFree
       THEN TRUE
       ELSE /\ Len(trace) < MaxStages
            /\ Len(trace) > 0
            /\ SameStage(trace[Len(trace)].op, o)

\* the combinator o was called on res and did outc
Chained(o, outc) ==
  /\ MayChain(o)
  /\ trace' = Append(trace, [op |-> o, pre |-> res, post |-> outc])
  /\ self' = this_after(o.op, res)
  /\ IF outc.kind = "return"
       THEN /\ pc' = "chain"
            /\ res' = outc.val
            /\ out' = out
       ELSE /\ pc' = "done"
            /\ res' = NoResult
            /\ out' = [kind |-> "throw", val |-> outc.val]
  /\ UNCHANGED <<origin, src, again>>
  /\ UNCHANGED tryVars

\* the exit o (unwrap or expect) was called on res and did outc
Exited(o, outc) ==
  /\ pc = "chain"
  /\ trace' = Append(trace, [op |-> o, pre |-> res, post |-> outc])
  /\ self' = this_after(o.op, res)
  /\ pc' = "done"
  /\ res' = NoResult
  /\ out' = [kind |-> outc.kind, val |-> outc.val]
  /\ UNCHANGED <<origin, src, again>>
  /\ UNCHANGED tryVars

Stage(op, f, rr) == [op |-> op, f |-> f, rr |-> rr]

MapRes(RR, f) == Chained(Stage("map_res", f, RR), map_res(res, RR, f))

MapErr(f) == Chained(Stage("map_err", f, "EE"), map_err(res, f))

\* the Fibonacci functions are handed arguments up to MaxFib
FibArgOk(f) ==
  (is_ok(res) /\ f \in {"get_fib_iterative", "get_fib_recursive"})
    => res.internal_.storage <= MaxFib

AndThen(f) ==
  /\ pc = "chain"
  /\ FibArgOk(f)
  /\ Chained(Stage("and_then", f, "int"), and_then(res, f))

OrElse(RR, f) == Chained(Stage("or_else", f, RR), or_else(res, RR, f))

Unwrap == Exited(Stage("unwrap", "none", "none"), unwrap(res))

Expect(oe) == Exited(Stage("expect", oe, "none"), expect(res, oe))

(* ------------- a second method called on the same Result -------------- *)

\* the call r.op<rr>(f)
Call(o, r) ==
  CASE o.op = "map_res" -> map_res(r, o.rr, o.f)
    [] o.op = "map_err" -> map_err(r, o.f)
    [] o.op = "and_then" -> and_then(r, o.f)
    [] o.op = "or_else" -> or_else(r, o.rr, o.f)
    [] o.op = "unwrap" -> unwrap(r)
    [] o.op = "expect" -> expect(r, o.f)

\* the method calls there are
Calls ==
  {Stage("map_res", f, RR) : f \in MapFns, RR \in Types}
    \cup {Stage("map_err", f, "EE") : f \in ErrFns}
    \cup {Stage("and_then", f, "int") : f \in ResFns}
    \cup {Stage("or_else", f, RR) : f \in ResFns, RR \in Types}
    \cup {Stage("unwrap", "none", "none")}
    \cup {Stage("expect", oe, "none") : oe \in OtherErrors}

\* auto r = ...; r.first(...); r.o(...): the Result a chain started from,
\* which has had one method called on it, has the method o called on it
Again(o) ==
  /\ pc \in {"chain", "done"}
  /\ Len(trace) = 1
  /\ (is_ok(self) /\ o.f \in {"get_fib_iterative", "get_fib_recursive"})
       => self.internal_.storage <= MaxFib
  /\ pc' = "again"
  /\ again' = [op |-> o, pre |-> self, post |-> Call(o, self)]
  /\ self' = this_after(o.op, self)
  /\ UNCHANGED <<res, origin, src, trace, out>>
  /\ UNCHANGED tryVars

(* ------------------- a function of two fallible steps ------------------ *)

\* what a fallible step can give
StepResults == {Ok(v) : v \in Values} \cup {Err(e) : e \in Errors}

\* int n = TRY(<a step that gives r>), then go to pc value next
TryStep(at, r, next, local) ==
  /\ pc = at
  /\ steps' = Append(steps, r)
  /\ LET t == TRY(r)
     IN  IF t.kind = "leave"
           THEN /\ pc' = "returned"
                /\ fret' = Return(t.val)
                /\ locals' = locals
           ELSE IF t.kind = "throw"
           THEN /\ pc' = "returned"
                /\ fret' = t
                /\ locals' = locals
           ELSE /\ pc' = next
                /\ fret' = fret
                /\ locals' = [locals EXCEPT ![local] = t.val]
  /\ UNCHANGED chainVars

\* int n_1 = TRY(...);
TryFirst(r) == TryStep("idle", r, "step2", "n_1")
\* int n_2 = TRY(...);
TrySecond(r) == TryStep("step2", r, "step3", "n_2")
\* return Result<int>::Ok(n_1 + n_2);
TryReturn ==
  /\ pc = "step3"
  /\ pc' = "returned"
  /\ fret' = Return(Ok(locals.n_1 + locals.n_2))
  /\ UNCHANGED <<steps, locals>>
  /\ UNCHANGED chainVars

(* --------------------------- specification ----------------------------- *)

Next ==
  \/ \E v \in Values : MakeOk(v)
  \/ \E e \in Errors : MakeErr(e)
  \/ \E f \in {"get_fib_recursive", "get_fib_iterative"}, n \in FibInputs :
       CallFib(f, n)
  \/ \E RR \in Types, f \in MapFns : MapRes(RR, f)
  \/ \E f \in ErrFns : MapErr(f)
  \/ \E f \in ResFns : AndThen(f)
  \/ \E RR \in Types, f \in ResFns : OrElse(RR, f)
  \/ Unwrap
  \/ \E oe \in OtherErrors : Expect(oe)
  \/ \E o \in Calls : Again(o)
  \/ \E r \in StepResults : TryFirst(r)
  \/ \E r \in StepResults : TrySecond(r)
  \/ TryReturn

Spec == Init /\ [][Next]_vars

(* ------------------------------ properties ----------------------------- *)

\* the last method called
Last == trace[Len(trace)]
Called(op) == Len(trace) > 0 /\ Last.op.op = op
Payload(r) == r.internal_.storage

\* every Result the state holds
LiveResults ==
  {r \in {res, origin, self} : r # NoResult}
    \cup {trace[i].pre : i \in 1..Len(trace)}
    \cup {trace[i].post.val : i \in
            {j \in 1..Len(trace) :
               /\ trace[j].post.kind = "return"
               /\ trace[j].op.op \notin {"unwrap", "expect"}}}
    \cup {steps[i] : i \in 1..Len(steps)}
    \cup (IF again # NoOutcome THEN {again.pre} ELSE {})
    \cup (IF /\ again # NoOutcome
              /\ again.post.kind = "return"
              /\ again.op.op \notin {"unwrap", "expect"}
            THEN {again.post.val} ELSE {})
    \cup (IF pc = "returned" /\ fret.kind = "return" THEN {fret.val} ELSE {})

\* C1: every live Result stores exactly one alternative, the return value or
\* the error: Ok(v) is_ok and not is_error, Err(e) is_error and not is_ok,
\* exactly one of is_ok and is_error holds of any Result, and "this object
\* is not in a valid state" is never thrown.
C1_ExactlyOneVariant ==
  /\ \A r \in LiveResults :
       /\ which(r.internal_) \in {0, 1}
       /\ is_ok(r) # is_error(r)
       /\ DOMAIN r.internal_ = {"index", "storage"}
       /\ expect_valid_state(r).kind = "return"
  /\ (pc # "idle" /\ src[1] = "Ok") => (is_ok(origin) /\ ~is_error(origin))
  /\ (pc # "idle" /\ src[1] = "Err") => (is_error(origin) /\ ~is_ok(origin))
  /\ \A i \in 1..Len(trace) :
       trace[i].post.kind = "throw"
         => trace[i].post.val # "this object is not in a valid state"
  /\ fret.kind = "throw" => fret.val # "this object is not in a valid state"

\* both variants were made and had methods called on them
C1_Witness ==
  /\ pc = "done"
  /\ src[1] = "Ok"
  /\ Len(trace) >= 3
  /\ \E i \in 1..Len(trace) : is_ok(trace[i].pre)
  /\ \E i \in 1..Len(trace) : is_error(trace[i].pre)

\* C2: unwrap on Ok(v) returns v and throws nothing; unwrap on Err(e)
\* returns no value and throws exactly e.
C2_Unwrap ==
  (pc = "done" /\ Called("unwrap")) =>
    /\ is_ok(Last.pre) =>
         (out.kind = "return" /\ out.val = Payload(Last.pre))
    /\ is_error(Last.pre) =>
         (out.kind = "throw" /\ out.val = Payload(Last.pre))
    /\ (Len(trace) = 1 /\ src[1] = "Ok") =>
         (out.kind = "return" /\ out.val = src[2])
    /\ (Len(trace) = 1 /\ src[1] = "Err") =>
         (out.kind = "throw" /\ out.val = src[2])

\* Err(e).unwrap() has thrown e
C2_Witness ==
  /\ pc = "done"
  /\ Called("unwrap")
  /\ Len(trace) = 1
  /\ src = <<"Err", "division by zero">>
  /\ out = [kind |-> "throw", val |-> "division by zero"]

\* C3: expect(oe) on Ok(v) returns v and throws nothing; expect(oe) on
\* Err(e) throws exactly oe and never e.
C3_Expect ==
  (pc = "done" /\ Called("expect")) =>
    /\ is_ok(Last.pre) =>
         (out.kind = "return" /\ out.val = Payload(Last.pre))
    /\ is_error(Last.pre) =>
         /\ out.kind = "throw"
         /\ out.val = Last.op.f
         /\ out.val # Payload(Last.pre)
    /\ (Len(trace) = 1 /\ src[1] = "Ok") =>
         (out.kind = "return" /\ out.val = src[2])
    /\ (Len(trace) = 1 /\ src[1] = "Err") =>
         (out.kind = "throw" /\ out.val = Last.op.f /\ out.val # src[2])

\* Err(e).expect(oe) has thrown oe
C3_Witness ==
  /\ pc = "done"
  /\ Called("expect")
  /\ Len(trace) = 1
  /\ src = <<"Err", "exception">>
  /\ Last.op.f = "silly me!"
  /\ out = [kind |-> "throw", val |-> "silly me!"]

\* the first k methods of the chain are all the combinator op
AllStages(op, k) == \A i \in 1..k : trace[i].op.op = op

\* f_k(... f_1(v)) for the functions of the first k stages, each result
\* converted to the stage's RR
RECURSIVE Composed(_, _)
Composed(v, k) ==
  IF k = 0 THEN v
  ELSE Cast(trace[k].op.rr, Apply(trace[k].op.f, Composed(v, k - 1)))

\* C4: map_res(f) on Ok(v) gives Ok(f(v)) and calls f exactly once, on v;
\* on Err(e) it gives Err(e) and never calls f.  So a chain of n map_res
\* over Ok(v) gives Ok(f_n(...f_1(v))), six doublings of Ok(1) give Ok(64),
\* and the chain over Err(e) gives Err(e) with no function called.
C4_MapRes ==
  /\ Called("map_res") =>
       /\ is_ok(Last.pre) =>
            /\ Last.post.kind = "return"
            /\ Last.post.val =
                 Ok(Cast(Last.op.rr, Apply(Last.op.f, Payload(Last.pre))))
            /\ Last.post.calls = << <<Last.op.f, Payload(Last.pre)>> >>
       /\ is_error(Last.pre) =>
            /\ Last.post.kind = "return"
            /\ Last.post.val = Err(Payload(Last.pre))
            /\ Last.post.calls = <<>>
  /\ (pc = "chain" /\ Len(trace) > 0 /\ AllStages("map_res", Len(trace))) =>
       /\ is_ok(origin) => res = Ok(Composed(Payload(origin), Len(trace)))
       /\ is_error(origin) =>
            /\ res = origin
            /\ \A i \in 1..Len(trace) : trace[i].post.calls = <<>>
  /\ ( /\ pc = "chain"
       /\ Len(trace) = 6
       /\ origin = Ok(1)
       /\ \A i \in 1..6 : trace[i].op.op = "map_res" /\ trace[i].op.f = "by_two"
     ) => res = Ok(64)

\* six doublings of Ok(1) by map_res<char>(by_two) have given Ok(64)
C4_Witness ==
  /\ pc = "chain"
  /\ Len(trace) = 6
  /\ src = <<"Ok", 1>>
  /\ \A i \in 1..6 : trace[i].op = Stage("map_res", "by_two", "char")
  /\ \A i \in 1..6 : Len(trace[i].post.calls) = 1
  /\ res = Ok(64)

\* C5: map_err(f) on Err(e) gives Err(f(e)) and calls f exactly once, on e,
\* so that an unwrap that follows throws f(e) and not e (e an error that f
\* changes); on Ok(v) it gives Ok(v) and never calls f.
C5_MapErr ==
  /\ Called("map_err") =>
       /\ is_error(Last.pre) =>
            /\ Last.post.kind = "return"
            /\ Last.post.val = Err(Apply(Last.op.f, Payload(Last.pre)))
            /\ Last.post.calls = << <<Last.op.f, Payload(Last.pre)>> >>
       /\ is_ok(Last.pre) =>
            /\ Last.post.kind = "return"
            /\ Last.post.val = Ok(Payload(Last.pre))
            /\ Last.post.calls = <<>>
  /\ ( /\ Called("unwrap")
       /\ Len(trace) >= 2
       /\ trace[Len(trace) - 1].op.op = "map_err"
       /\ is_error(trace[Len(trace) - 1].pre)
     ) =>
       LET m == trace[Len(trace) - 1]
       IN  /\ out.kind = "throw"
           /\ out.val = Apply(m.op.f, Payload(m.pre))
           /\ Payload(m.pre) \in Errors => out.val # Payload(m.pre)

\* Err(e).map_err(to_error).unwrap() has thrown to_error(e)
C5_Witness ==
  /\ pc = "done"
  /\ Called("unwrap")
  /\ Len(trace) = 2
  /\ src = <<"Err", "exception">>
  /\ trace[1].op.op = "map_err"
  /\ trace[1].post.calls = << <<"to_error", "exception">> >>
  /\ out = [kind |-> "throw", val |-> "error"]

\* C6: and_then(f) on Ok(v) returns the Result f(v); on Err(e) it returns
\* Err(e) and does not call f.  In a chain of and_then, once a stage gives
\* Err no later function is called and the chain gives that first Err.
C6_AndThen ==
  /\ Called("and_then") =>
       /\ is_ok(Last.pre) =>
            /\ Last.post.kind = "return"
            /\ Last.post.val = Apply(Last.op.f, Payload(Last.pre)).val
            /\ Last.post.calls = << <<Last.op.f, Payload(Last.pre)>> >>
       /\ is_error(Last.pre) =>
            /\ Last.post.kind = "return"
            /\ Last.post.val = Err(Payload(Last.pre))
            /\ Last.post.calls = <<>>
  /\ (pc = "chain" /\ AllStages("and_then", Len(trace))) =>
       \A i \in 1..Len(trace) :
         (is_ok(trace[i].pre) /\ is_error(trace[i].post.val)) =>
           /\ \A j \in (i + 1)..Len(trace) : trace[j].post.calls = <<>>
           /\ res = trace[i].post.val

\* a chain of and_then from Ok went to Err at its first stage, and the
\* later stage, another function, was not called
C6_Witness ==
  /\ pc = "chain"
  /\ Len(trace) = 2
  /\ AllStages("and_then", 2)
  /\ is_ok(origin)
  /\ trace[1].op.f = "get_fib_recursive"
  /\ trace[2].op.f = "by_two_"
  /\ is_error(trace[1].post.val)
  /\ trace[2].post.calls = <<>>
  /\ res = Err("exception")

Combinators == {"map_res", "map_err", "and_then", "or_else"}

\* C7: or_else(f) on a Result that holds an error calls f and returns the
\* Result that f produces.
C7_OrElseCallsF ==
  (Called("or_else") /\ is_error(Last.pre)) =>
    /\ Last.post.kind = "return"
    /\ Len(Last.post.calls) = 1
    /\ Last.post.calls[1][1] = Last.op.f

\* C8: no combinator throws on its own account: called with a function
\* that throws nothing, on a Result of either variant, it throws nothing.
C8_CombinatorsNeverThrow ==
  (Len(trace) > 0 /\ Last.op.op \in Combinators) => Last.post.kind = "return"

\* C9: TRY(expr): when expr gives Err(e) the enclosing function returns that
\* Err(e) at once and none of its later steps runs; when expr gives Ok(v),
\* TRY has the value v, nothing is thrown, and the function goes on with
\* its next step.
C9_Try ==
  /\ (Len(steps) >= 1 /\ is_error(steps[1])) =>
       /\ pc = "returned"
       /\ fret.kind = "return"
       /\ fret.val = steps[1]
       /\ Len(steps) = 1
  /\ (Len(steps) >= 1 /\ is_ok(steps[1])) =>
       /\ locals.n_1 = Payload(steps[1])
       /\ Len(steps) = 1 => (pc = "step2" /\ fret = NoOutcome)
  /\ (Len(steps) = 2 /\ is_error(steps[2])) =>
       /\ pc = "returned"
       /\ fret.kind = "return"
       /\ fret.val = steps[2]
  /\ (Len(steps) = 2 /\ is_ok(steps[2])) =>
       /\ locals.n_2 = Payload(steps[2])
       /\ pc \in {"step3", "returned"}
       /\ pc = "step3" => fret = NoOutcome
       /\ pc = "returned" =>
            /\ fret.kind = "return"
            /\ fret.val = Ok(Payload(steps[1]) + Payload(steps[2]))
  /\ fret.kind # "throw"
  /\ Len(steps) <= 2

\* the first step gave Err: the function returned it and the second step
\* never ran
C9_Witness ==
  /\ pc = "returned"
  /\ steps = <<Err("division by zero")>>
  /\ fret.kind = "return"
  /\ fret.val = Err("division by zero")

\* F(0) = F(1) = 1, F(n) = F(n-1) + F(n-2)
RECURSIVE F(_)
F(n) == IF n <= 1 THEN 1 ELSE F(n - 1) + F(n - 2)

FibFns == {"get_fib_recursive", "get_fib_iterative"}

\* C10: for n < 0 get_fib_recursive(n) and get_fib_iterative(n) both return
\* an Err on which unwrap throws; for n >= 0 get_fib_recursive(n) returns
\* Ok(F(n)), never Err, and what get_fib_iterative(n) returns; both return
\* Ok(89) for n = 10.
C10_Fib ==
  (pc # "idle" /\ src[1] \in FibFns /\ Len(trace) <= 1) =>
    LET n == src[2]
        other == CHOOSE g \in FibFns : g # src[1]
    IN  /\ n < 0 =>
             /\ is_error(origin)
             /\ Called("unwrap") => out.kind = "throw"
        /\ n >= 0 =>
             /\ is_ok(origin)
             /\ origin = Ok(F(n))
             /\ origin = Apply(other, n).val
             /\ Called("unwrap") => out = [kind |-> "return", val |-> F(n)]
        /\ n = 10 => origin = Ok(89)

\* get_fib_recursive(10) returned Ok(89) and unwrap gave 89
C10_Witness ==
  /\ pc = "done"
  /\ src = <<"get_fib_recursive", 10>>
  /\ origin = Ok(89)
  /\ Len(trace) = 1
  /\ Called("unwrap")
  /\ out = [kind |-> "return", val |-> 89]

\* get_fib_iterative(-1) returned Err and unwrap threw
C10_WitnessNegative ==
  /\ pc = "done"
  /\ src = <<"get_fib_iterative", -1>>
  /\ is_error(origin)
  /\ Len(trace) = 1
  /\ Called("unwrap")
  /\ out.kind = "throw"

\* C11: the variant of a Result is fixed when it is made: after any
\* methods called on it (is_ok, is_error, unwrap, expect, map_res, map_err,
\* and_then, or_else, also those that throw) is_ok and is_error give what
\* they gave when it was made; a method gives a new Result and never turns
\* the one it is called on from Ok to Err or from Err to Ok.
C11_VariantFixed ==
  /\ Len(trace) >= 1 =>
       /\ is_ok(self) = is_ok(Last.pre)
       /\ is_error(self) = is_error(Last.pre)
  /\ Len(trace) = 1 =>
       /\ is_ok(self) = is_ok(origin)
       /\ is_error(self) = is_error(origin)
       /\ src[1] = "Ok" => (is_ok(self) /\ ~is_error(self))
       /\ src[1] = "Err" => (is_error(self) /\ ~is_ok(self))
  /\ again # NoOutcome =>
       /\ is_ok(again.pre) = is_ok(origin)
       /\ is_error(again.pre) = is_error(origin)

\* and_then on Ok(v) gave a new Result that is Err; the Result it was called
\* on is still Ok, also after unwrap was then called on it
C11_Witness ==
  /\ pc = "again"
  /\ src[1] = "Ok"
  /\ trace[1].op.op = "and_then"
  /\ is_error(res)
  /\ again.op.op = "unwrap"
  /\ again.post.kind = "return"
  /\ is_ok(self)

\* the method calls made on a Result: those of the chain, and the second
\* call on the same Result
AllCalls ==
  {trace[i] : i \in 1..Len(trace)}
    \cup (IF again # NoOutcome THEN {again} ELSE {})

\* C12: or_else(f) on Ok(v) returns Ok(v), that is Result<RR, E>::Ok(v), the
\* value rewrapped (as an RR), throws nothing and never calls f.
C12_OrElseOnOk ==
  /\ \A c \in AllCalls :
       (c.op.op = "or_else" /\ is_ok(c.pre)) =>
         /\ c.post.kind = "return"
         /\ c.post.calls = <<>>
         /\ is_ok(c.post.val)
         /\ c.post.val = Ok(Cast(c.op.rr, Payload(c.pre)))
         /\ c.op.rr = "int" => c.post.val = Ok(Payload(c.pre))
  /\ (Called("or_else") /\ Len(trace) = 1 /\ src[1] = "Ok") =>
       /\ Last.post.kind = "return"
       /\ Last.post.val = Ok(src[2])
       /\ Last.post.calls = <<>>

\* Ok(2).or_else<char>(by_two_) has returned Ok(2) without calling by_two_
C12_Witness ==
  /\ pc = "chain"
  /\ Len(trace) = 1
  /\ src = <<"Ok", 2>>
  /\ Last.op = Stage("or_else", "by_two_", "char")
  /\ Last.post.calls = <<>>
  /\ res = Ok(2)

\* the call c, made on the Result the chain started from, got hold of the
\* payload that Result was made with
Obtained(c) ==
  \/ /\ c.op.op \in {"unwrap", "expect"}
     /\ c.post.kind = "return"
     /\ is_ok(origin)
     /\ c.post.val = Payload(origin)
  \/ /\ c.op.op = "unwrap"
     /\ c.post.kind = "throw"
     /\ is_error(origin)
     /\ c.post.val = Payload(origin)
  \/ /\ Len(c.post.calls) = 1
     /\ c.post.calls[1][2] = Payload(origin)

\* C13: each consuming method (unwrap, expect, map_res, map_err, and_then,
\* or_else) moves the content out of the Result it is called on: once the
\* call has returned, the Result no longer holds the payload it held, and a
\* second consuming call on it cannot obtain that payload again.
C13_ContentMovedOut ==
  /\ (Len(trace) >= 1 /\ Last.post.kind = "return") => self # Last.pre
  /\ (again # NoOutcome /\ trace[1].post.kind = "return") => ~Obtained(again)

\* C14: usage errors fail loudly: reading the return value of an Err Result
\* (get_return) throws a logic error and returns no value, reading the
\* error of an Ok Result (get_error) throws a logic error and returns no
\* value, and no method ever returns or hands on a payload of the variant
\* the Result does not hold.
C14_UsageErrorsThrow ==
  /\ \A r \in LiveResults :
       /\ is_error(r) =>
            /\ get_return(r).kind = "throw"
            /\ get_return(r).val = "attempt to read the return of an error"
       /\ is_ok(r) =>
            /\ get_error(r).kind = "throw"
            /\ get_error(r).val = "attempt to read the error of a valid result"
  /\ \A c \in AllCalls :
       /\ (c.op.op = "or_else" /\ is_error(c.pre)) =>
            /\ c.post.kind = "throw"
            /\ c.post.val = "attempt to read the return of an error"
            /\ c.post.calls = <<>>
       /\ (c.op.op \in {"unwrap", "expect"} /\ c.post.kind = "return") =>
            (is_ok(c.pre) /\ c.post.val = Payload(c.pre))
       /\ (c.op.op = "unwrap" /\ c.post.kind = "throw") =>
            (is_error(c.pre) /\ c.post.val = Payload(c.pre))
       /\ c.post.calls # <<>> =>
            /\ Len(c.post.calls) = 1
            /\ c.op.op = "map_err" => is_error(c.pre)
            /\ c.op.op # "map_err" => is_ok(c.pre)
            /\ c.post.calls[1][2] = Payload(c.pre)

\* or_else on Err(e) read the return value of an Err: the logic error was
\* thrown and nothing was returned
C14_Witness ==
  /\ pc = "done"
  /\ src[1] = "Err"
  /\ Called("or_else")
  /\ is_error(Last.pre)
  /\ out = [kind |-> "throw", val |-> "attempt to read the return of an error"]

====
